---------------------------- MODULE Spec2Model ----------------------------
(***************************************************************************)
(* A model of the core of the Rift interpreter: the Environment scope      *)
(* chain (src/lib/ast/env.cc), the recursive-descent Parser                *)
(* (src/lib/ast/parser.cc) and the tree-walking Evaluator                  *)
(* (src/lib/ast/eval.cc).                                                  *)
(***************************************************************************)
EXTENDS Integers, Sequences, FiniteSets, TLC

(***************************************************************************)
(* Bounds of the model.                                                    *)
(***************************************************************************)
\* deepest scope chain the model explores
MaxDepth == 3
\* longest scope chain the Environment contract is checked on
MaxChain == 2
\* deepest nesting of function calls one evaluation may reach
MaxCall == 2
\* most operands of an operator chain handed to the parser
MaxOperands == 3

\* the iterations of one For loop that are followed
MaxIter == 4

(***************************************************************************)
(* Token / Value.  A Token is {type, lexeme, literal}; the literal is a    *)
(* dynamically typed payload (std::any), modelled by a tag t and one field *)
(* per payload type.  The source line of a token is not modelled.          *)
(***************************************************************************)
\* nullptr where an AST node is expected
NullNode == [k |-> "null"]

AnyNone == [t |-> "none", n |-> 0, s |-> "", ptr |-> NullNode]

AnyNull == [t |-> "nullptr", n |-> 0, s |-> "", ptr |-> NullNode]

AnyNum(v) == [t |-> "int", n |-> v, s |-> "", ptr |-> NullNode]

AnyStr(v) == [t |-> "string", n |-> 0, s |-> v, ptr |-> NullNode]

\* a string literal handed to the Token constructor ("", "true", "false")
AnyCStr(v) == [t |-> "cstr", n |-> 0, s |-> v, ptr |-> NullNode]

AnyBool(b) == [t |-> "bool", n |-> IF b THEN 1 ELSE 0, s |-> "", ptr |-> NullNode]

\* a Block* : the function body the pointer refers to
AnyBlock(block) == [t |-> "Block*", n |-> 0, s |-> "", ptr |-> block]

Tok(type, lexeme, literal) == [type |-> type, lexeme |-> lexeme, literal |-> literal]

\* Token(): the "no such binding" sentinel, NIL-typed with an empty lexeme
TokenDefault == Tok("NIL", "", AnyNone)

\* Token(TokenType::NIL, "null", nullptr, line): the value of `var x;`
NilTok == Tok("NIL", "null", AnyNull)

NumTok(v) == Tok("NUMERICLITERAL", ToString(v), AnyNum(v))

StrTok(v) == Tok("STRINGLITERAL", v, AnyStr(v))

IdTok(name) == Tok("IDENTIFIER", name, AnyStr(name))

\* the literals true and false, with a bool payload
BoolTok(b) == Tok(IF b THEN "TRUE" ELSE "FALSE", IF b THEN "true" ELSE "false", AnyBool(b))

\* Token(TokenType::TRUE, "true", "true", line) / Token(TokenType::FALSE, ...)
BoolResult(b) ==
    Tok(IF b THEN "TRUE" ELSE "FALSE", IF b THEN "true" ELSE "false",
        AnyCStr(IF b THEN "true" ELSE "false"))

\* truthy(tok): TRUE is true, FALSE and NIL are false, any other token is true
truthy(tok) == tok.type \notin {"FALSE", "NIL"}

\* operator== of Token
TokenEq(a, b) == a.type = b.type /\ a.lexeme = b.lexeme

isNumber(tok) == tok.type = "NUMERICLITERAL"

isString(tok) == tok.type = "STRINGLITERAL"

\* castString of a token: its text
castString(tok) == tok.lexeme

(***************************************************************************)
(* Environment.  The chain of scopes is a sequence: env[1] is the global   *)
(* (root) scope and env[i+1] is the child of env[i]; a scope is a function *)
(* from the names it binds to Tokens.                                      *)
(***************************************************************************)
Names == {"x", "y", "f"}

EmptyScope == [n \in {} |-> TokenDefault]

\* values[name] = value
Bind(scope, name, value) ==
    [n \in (DOMAIN scope) \cup {name} |-> IF n = name THEN value ELSE scope[n]]

RECURSIVE getEnvAt(_, _, _)
\* a faulty variant: a lookup in which an inner scope shadows the outer ones
getEnvAtInnerFirst(chain, i, name) ==
    IF i < Len(chain) /\ \E j \in (i + 1)..Len(chain) : name \in DOMAIN chain[j]
    THEN getEnvAt(chain, i + 1, name)
    ELSE IF name \in DOMAIN chain[i] THEN chain[i][name] ELSE TokenDefault

\* Environment::getEnv called on scope i of the chain
getEnvAt(chain, i, name) ==
    IF name \notin DOMAIN chain[i]
    THEN IF i < Len(chain)
         THEN getEnvAt(chain, i + 1, name)
         ELSE TokenDefault
    ELSE chain[i][name]

\* Environment::getInstance().getEnv(name): the search starts at the root
getEnv(chain, name) == getEnvAt(chain, 1, name)

RECURSIVE setEnvAt(_, _, _, _)
\* a faulty variant: a write that always binds in the innermost scope
setEnvAtLeaf(chain, i, name, value) ==
    [chain EXCEPT ![Len(chain)] = Bind(@, name, value)]

\* a faulty variant: a write that always binds in the scope it is called on
setEnvAtHere(chain, i, name, value) ==
    [chain EXCEPT ![i] = Bind(@, name, value)]

\* Environment::setEnv called on scope i of the chain
setEnvAt(chain, i, name, value) ==
    IF name \in DOMAIN chain[i]
    THEN [chain EXCEPT ![i] = Bind(@, name, value)]
    ELSE IF i < Len(chain)
         THEN setEnvAt(chain, i + 1, name, value)
         ELSE [chain EXCEPT ![i] = Bind(@, name, value)]

\* Environment::getInstance().setEnv(name, value, is_const): no identifier
\* of the model is a C_IDENTIFIER, so is_const is always false
setEnv(chain, name, value) == setEnvAt(chain, 1, name, value)

\* Environment::addChild: a fresh empty scope at the deepest position
addChild(chain) == Append(chain, EmptyScope)

\* Environment::removeChild: pop the deepest scope; the global scope stays
removeChild(chain) ==
    IF Len(chain) > 1 THEN SubSeq(chain, 1, Len(chain) - 1) ELSE chain

(***************************************************************************)
(* AST nodes.  Every node is a record with its kind in k; a null pointer   *)
(* to a node is NullNode.                                                  *)
(***************************************************************************)
Literal(value) == [k |-> "Literal", value |-> value]

Unary(op, expr) == [k |-> "Unary", op |-> op, expr |-> expr]

Binary(left, op, right) == [k |-> "Binary", left |-> left, op |-> op, right |-> right]

Grouping(expr) == [k |-> "Grouping", expr |-> expr]

Assign(name, value) == [k |-> "Assign", name |-> name, value |-> value]

Call(name, args) == [k |-> "Call", name |-> name, args |-> args]

StmtExpr(expr) == [k |-> "StmtExpr", expr |-> expr]

StmtPrint(expr) == [k |-> "StmtPrint", expr |-> expr]

StmtReturn(expr) == [k |-> "StmtReturn", expr |-> expr]

DeclStmt(stmt) == [k |-> "DeclStmt", stmt |-> stmt]

DeclVar(identifier, expr) == [k |-> "DeclVar", identifier |-> identifier, expr |-> expr]

\* id is the identity of the node: evaluation moves its blk out of it
DeclFunc(id, name, blk) == [k |-> "DeclFunc", id |-> id, name |-> name, blk |-> blk]

Block(decls) == [k |-> "Block", decls |-> decls]

Program(decls) == [k |-> "Program", decls |-> decls]

\* StmtIf::Stmt, one branch of an if statement: its condition and its body,
\* a block or a single statement
Branch(expr, blk, stmt) == [k |-> "Stmt", expr |-> expr, blk |-> blk, stmt |-> stmt]

\* id is the identity of the node: evaluation moves if_stmt->expr out of it
StmtIf(id, if_stmt, elif_stmts, else_stmt) ==
    [k |-> "StmtIf", id |-> id, if_stmt |-> if_stmt, elif_stmts |-> elif_stmts,
     else_stmt |-> else_stmt]

For(decl, stmt_l, expr, stmt_o, blk, stmt_r) ==
    [k |-> "For", decl |-> decl, stmt_l |-> stmt_l, expr |-> expr, stmt_o |-> stmt_o,
     blk |-> blk, stmt_r |-> stmt_r]

(***************************************************************************)
(* Parser.  The parser state ps holds the token stream, the cursor         *)
(* (1-based), the Environment singleton the parser reads, and the          *)
(* ParserException in flight (err, "" when none) with every parse error    *)
(* raised so far (raised).                                                 *)
(***************************************************************************)
\* a token as the scanner emits it for a punctuation, operator or keyword
Sym(type, lexeme) == Tok(type, lexeme, AnyCStr(""))

EofTok == Sym("EOFF", "")

NewParser(tokens, chain) ==
    [tokens |-> tokens, current |-> 1, env |-> chain, err |-> "", raised |-> <<>>]

Failed(ps) == ps.err # ""

atEnd(ps) == ps.current > Len(ps.tokens)

peek(ps) == IF atEnd(ps) THEN EofTok ELSE ps.tokens[ps.current]

\* peek(expected): the current token has the expected type
peekIs(ps, type) == peek(ps).type = type

peekPrev(ps) == ps.tokens[ps.current - 1]

peekNext(ps) ==
    IF ps.current + 1 > Len(ps.tokens) THEN EofTok ELSE ps.tokens[ps.current + 1]

advance(ps) == IF atEnd(ps) THEN ps ELSE [ps EXCEPT !.current = @ + 1]

prevance(ps) == IF ps.current > 1 THEN [ps EXCEPT !.current = @ - 1] ELSE ps

\* throw ParserException(msg), from consume or from error::report
raise(ps, msg) == [ps EXCEPT !.err = msg, !.raised = Append(@, msg)]

\* consume(expected, error): advance over the expected token or raise
consume(ps, type, msg) == IF peekIs(ps, type) THEN advance(ps) ELSE raise(ps, msg)

PR(ps, node) == [ps |-> ps, node |-> node]

\* a call of one member function of the Parser from another: rule(f, ps) is f(ps)
RECURSIVE rule(_, _)
RECURSIVE factorLoop(_, _), termLoop(_, _), comparisonLoop(_, _), equalityLoop(_, _)

\* Parser::primary
primary(ps) ==
    IF peekIs(ps, "FALSE") THEN PR(advance(ps), Literal(Sym("FALSE", "false")))
    ELSE IF peekIs(ps, "TRUE") THEN PR(advance(ps), Literal(Sym("TRUE", "true")))
    ELSE IF peekIs(ps, "NIL") THEN PR(advance(ps), Literal(Sym("NIL", "nil")))
    ELSE IF peek(ps).type \in {"NUMERICLITERAL", "STRINGLITERAL", "IDENTIFIER"}
         THEN PR(advance(ps), Literal(peekPrev(advance(ps))))
    ELSE IF peekIs(ps, "LEFT_PAREN")
         THEN LET r == rule("expression", advance(ps))
              IN  IF Failed(r.ps) THEN r
                  ELSE PR(consume(r.ps, "RIGHT_PAREN", "Expected ')' after expression"),
                          r.node)
    ELSE PR(ps, NullNode)

\* Parser::unary
unary(ps) ==
    IF peek(ps).type \in {"BANG", "MINUS"}
    THEN LET op == peek(ps)
             r  == rule("unary", advance(ps))
         IN  IF Failed(r.ps) THEN r
             ELSE IF r.node = NullNode
                  THEN PR(raise(r.ps, "Expected expression after unary operator"), NullNode)
                  ELSE PR(r.ps, Unary(op, r.node))
    ELSE rule("primary", ps)

\* the while loop of Parser::factor
factorLoop(ps, expr) ==
    IF ~Failed(ps) /\ peek(ps).type \in {"STAR", "SLASH"}
    THEN LET op == peek(ps)
             r  == rule("unary", advance(ps))
         IN  IF Failed(r.ps) THEN r
             ELSE IF expr = NullNode
                  THEN PR(raise(r.ps, "Expected number before factor operator"), NullNode)
             ELSE IF r.node = NullNode
                  THEN PR(raise(r.ps, "Expected number after factor operator"), NullNode)
             ELSE factorLoop(r.ps, Binary(expr, op, r.node))
    ELSE PR(ps, expr)

\* Parser::factor
factor(ps) == LET r == rule("unary", ps) IN factorLoop(r.ps, r.node)

\* the while loop of Parser::term
termLoop(ps, expr) ==
    IF ~Failed(ps) /\ peek(ps).type \in {"MINUS", "PLUS"}
    THEN LET op == peek(ps)
             r  == rule("factor", advance(ps))
         IN  IF Failed(r.ps) THEN r
             ELSE IF expr = NullNode
                  THEN PR(raise(r.ps, "Expected number before term operator"), NullNode)
             ELSE IF r.node = NullNode
                  THEN PR(raise(r.ps, "Expected number after term operator"), NullNode)
             ELSE termLoop(r.ps, Binary(expr, op, r.node))
    ELSE PR(ps, expr)

\* a faulty variant: a term whose right operand is a whole term (right-associative)
termRightAssoc(ps) ==
    LET l == rule("factor", ps)
    IN  IF ~Failed(l.ps) /\ peek(l.ps).type \in {"MINUS", "PLUS"}
        THEN LET op == peek(l.ps)
                 r  == rule("term", advance(l.ps))
             IN  IF Failed(r.ps) \/ l.node = NullNode \/ r.node = NullNode
                 THEN PR(raise(r.ps, "Expected number after term operator"), NullNode)
                 ELSE PR(r.ps, Binary(l.node, op, r.node))
        ELSE l

\* Parser::term
term(ps) == LET r == rule("factor", ps) IN termLoop(r.ps, r.node)

\* the while loop of Parser::comparison
comparisonLoop(ps, expr) ==
    IF ~Failed(ps) /\ peek(ps).type \in {"GREATER", "GREATER_EQUAL", "LESS", "LESS_EQUAL"}
    THEN LET op == peek(ps)
             r  == rule("term", advance(ps))
         IN  IF Failed(r.ps) THEN r
             ELSE IF expr = NullNode
                  THEN PR(raise(r.ps, "Expected expression before comparison operator"),
                          NullNode)
             ELSE IF r.node = NullNode
                  THEN PR(raise(r.ps, "Expected expression after comparison operator"),
                          NullNode)
             ELSE comparisonLoop(r.ps, Binary(expr, op, r.node))
    ELSE PR(ps, expr)

\* Parser::comparison
comparison(ps) == LET r == rule("term", ps) IN comparisonLoop(r.ps, r.node)

\* the while loop of Parser::equality
equalityLoop(ps, expr) ==
    IF ~Failed(ps) /\ peek(ps).type \in {"BANG_EQUAL", "EQUAL_EQUAL"}
    THEN LET op == peek(ps)
             r  == rule("comparison", advance(ps))
         IN  IF Failed(r.ps) THEN r
             ELSE IF expr = NullNode
                  THEN PR(raise(r.ps, "Expected expression before equality operator"),
                          NullNode)
             ELSE IF r.node = NullNode
                  THEN PR(raise(r.ps, "Expected expression after equality operator"),
                          NullNode)
             ELSE equalityLoop(r.ps, Binary(expr, op, r.node))
    ELSE PR(ps, expr)

\* Parser::equality
equality(ps) == LET r == rule("comparison", ps) IN equalityLoop(r.ps, r.node)

\* Parser::assignment
assignment(ps) ==
    IF TokenEq(peekNext(ps), Sym("EQUAL", "=")) /\ peekIs(ps, "IDENTIFIER")
    THEN LET ps1 == advance(ps)
         IN  IF peekIs(ps1, "SEMICOLON")
             THEN rule("equality", prevance(ps1))
             ELSE LET idt == peekPrev(ps1)
                      ps2 == consume(ps1, "EQUAL", "Expected '=' after variable name")
                      r   == rule("assignment", ps2)
                  IN  IF Failed(ps2) THEN PR(ps2, NullNode)
                      ELSE IF Failed(r.ps) THEN r
                      ELSE IF r.node = NullNode
                           THEN PR(raise(r.ps, "Expected expression after variable name"),
                                   NullNode)
                      ELSE IF TokenEq(getEnv(r.ps.env, castString(idt)), TokenDefault)
                           THEN PR(raise(r.ps, "Undefined variable"), NullNode)
                      ELSE PR(r.ps, Assign(idt, r.node))
    ELSE rule("equality", ps)

\* Parser::expression
expression(ps) == rule("assignment", ps)

\* Parser::statement_expression
statement_expression(ps) ==
    LET r == rule("expression", ps)
    IN  IF Failed(r.ps) THEN PR(r.ps, NullNode)
        ELSE LET ps1 == consume(r.ps, "SEMICOLON", "Expected ';' after expression")
             IN  IF Failed(ps1) THEN PR(ps1, NullNode) ELSE PR(ps1, StmtExpr(r.node))

\* Parser::statement_print
statement_print(ps) ==
    LET ps1 == consume(ps, "LEFT_PAREN", "Expected '(' after print")
        r   == rule("expression", ps1)
        ps2 == consume(r.ps, "RIGHT_PAREN", "Expected ')' after print")
        ps3 == consume(ps2, "SEMICOLON", "Expected ';' after print statement")
    IN  IF Failed(ps1) THEN PR(ps1, NullNode)
        ELSE IF Failed(r.ps) THEN PR(r.ps, NullNode)
        ELSE IF Failed(ps2) THEN PR(ps2, NullNode)
        ELSE IF Failed(ps3) THEN PR(ps3, NullNode)
        ELSE PR(ps3, StmtPrint(r.node))

\* Parser::declaration_statement
declaration_statement(ps) ==
    LET r == IF peekIs(ps, "PRINT")
             THEN rule("statement_print", advance(ps))
             ELSE rule("statement_expression", ps)
    IN  IF Failed(r.ps) THEN r ELSE PR(r.ps, DeclStmt(r.node))

\* Parser::declaration_variable, entered after the 'var' keyword
declaration_variable(ps) ==
    LET ps1 == consume(ps, "IDENTIFIER", "Expected variable name")
        idt == peek(ps)
        r   == rule("assignment", prevance(ps1))
        ps2 == consume(r.ps, "SEMICOLON", "Expected ';' after variable assignment")
    IN  IF Failed(ps1) THEN PR(ps1, NullNode)
        ELSE IF ~TokenEq(getEnv(ps1.env, castString(idt)), TokenDefault)
             THEN PR(raise(ps1, "Variable already declared"), NullNode)
        ELSE IF Failed(r.ps) THEN PR(r.ps, NullNode)
        ELSE IF Failed(ps2) THEN PR(ps2, NullNode)
        ELSE PR(ps2, DeclVar(idt, r.node))

\* a parse result that carries a vector of declarations
PD(ps, decls) == [ps |-> ps, decls |-> decls]

RECURSIVE blockLoop(_, _)
\* the while loop of Parser::block: the declarations of an inner block are
\* spliced into the enclosing block's
blockLoop(ps, decls) ==
    IF Failed(ps) \/ atEnd(ps) \/ peekIs(ps, "RIGHT_BRACE")
    THEN PD(ps, decls)
    ELSE IF peekIs(ps, "LEFT_BRACE")
         THEN LET r == rule("block", advance(ps))
              IN  IF Failed(r.ps) THEN PD(r.ps, decls)
                  ELSE blockLoop(r.ps, decls \o r.node.decls)
    ELSE IF peekIs(ps, "VAR")
         THEN LET r == rule("declaration_variable", advance(ps))
              IN  blockLoop(r.ps, Append(decls, r.node))
    ELSE LET r == rule("declaration_statement", ps)
         IN  blockLoop(r.ps, Append(decls, r.node))

\* Parser::block, entered after the '{'
block(ps) ==
    LET r   == blockLoop(ps, <<>>)
        ps1 == IF Failed(r.ps) THEN r.ps
               ELSE IF peekIs(r.ps, "RIGHT_BRACE") THEN advance(r.ps)
               ELSE raise(r.ps, "Expected '}' after block")
    IN  IF Failed(ps1) THEN PR(ps1, NullNode) ELSE PR(ps1, Block(r.decls))

RECURSIVE programLoop(_, _)
\* the while loop of Parser::program
programLoop(ps, decls) ==
    IF Failed(ps) \/ atEnd(ps)
    THEN PD(ps, decls)
    ELSE LET r == IF peekIs(ps, "VAR") THEN rule("declaration_variable", advance(ps))
                  ELSE IF peekIs(ps, "LEFT_BRACE") THEN rule("block", advance(ps))
                  ELSE rule("declaration_statement", ps)
         IN  programLoop(r.ps, Append(decls, r.node))

\* Parser::program
program(ps) ==
    LET r == programLoop(ps, <<>>)
    IN  IF Failed(r.ps) THEN PR(r.ps, NullNode) ELSE PR(r.ps, Program(r.decls))

\* the dispatch of a call to the member function it names
rule(f, ps) ==
    CASE f = "primary"               -> primary(ps)
      [] f = "unary"                 -> unary(ps)
      [] f = "factor"                -> factor(ps)
      [] f = "term"                  -> term(ps)
      [] f = "comparison"            -> comparison(ps)
      [] f = "equality"              -> equality(ps)
      [] f = "assignment"            -> assignment(ps)
      [] f = "expression"            -> expression(ps)
      [] f = "statement_expression"  -> statement_expression(ps)
      [] f = "statement_print"       -> statement_print(ps)
      [] f = "declaration_statement" -> declaration_statement(ps)
      [] f = "declaration_variable"  -> declaration_variable(ps)
      [] f = "block"                 -> block(ps)
      [] f = "program"               -> program(ps)

\* Parser::parse: the Program, or nullptr when a ParserException was caught
parse(tokens, chain) == rule("program", NewParser(tokens, chain))

(***************************************************************************)
(* Evaluator.  The visitor's state st is what an evaluation reads and      *)
(* writes: the Environment singleton (scopes), the DeclFunc nodes whose    *)
(* blk was moved out (moved), the messages error::runTimeError was called  *)
(* with (calls), what print wrote (out), and the call depth left (fuel).   *)
(* Two history fields record what the claims speak about: fresh, the       *)
(* names bound while unbound with the depth of the chain at that time, and *)
(* wrote, the last value each Assign wrote; and log, the operands and loop  *)
(* parts in the order the visitor evaluated them.                          *)
(* A visit returns st with how it ended (kind): "ok", or the exception in  *)
(* flight ("runtime_error", "return" for StmtReturnException,              *)
(* "bad_any_cast"), or "fuel" when the call depth bound was hit.           *)
(***************************************************************************)
NewVisitor(chain, mv) ==
    [scopes |-> chain, moved |-> mv, calls |-> <<>>, out |-> <<>>, fuel |-> MaxCall,
     fresh |-> {}, wrote |-> EmptyScope, log |-> <<>>]

ER(st, kind, tok, toks) == [st |-> st, kind |-> kind, tok |-> tok, toks |-> toks]

Ok(st, tok) == ER(st, "ok", tok, <<>>)

OkToks(st, toks) == ER(st, "ok", TokenDefault, toks)

\* error::runTimeError(msg): throws std::runtime_error(msg)
runTimeError(st, msg) ==
    ER([st EXCEPT !.calls = Append(@, msg)], "runtime_error", TokenDefault, <<>>)

Bound(chain, name) == \E i \in 1..Len(chain) : name \in DOMAIN chain[i]

\* env::getInstance(false).setEnv(name, value, is_const) from the visitor
envSet(st, name, value) ==
    [st EXCEPT !.scopes = setEnv(@, name, value),
               !.fresh = IF Bound(st.scopes, name) THEN @
                         ELSE @ \cup {[name |-> name, depth |-> Len(st.scopes)]}]

\* the visitor is about to evaluate the part `what` of the node it visits
note(st, what) == [st EXCEPT !.log = Append(@, what)]

\* any_arithmetic(left, right, op) on two numeric payloads; a bool result
\* is 1 or 0
any_arithmetic(l, r, op) ==
    CASE op.type = "MINUS" -> l.literal.n - r.literal.n
      [] op.type = "PLUS"  -> l.literal.n + r.literal.n
      [] op.type = "STAR"  -> l.literal.n * r.literal.n
      [] op.type = "SLASH" -> l.literal.n \div r.literal.n
      [] op.type = "EQUAL_EQUAL" -> IF l.literal.n = r.literal.n THEN 1 ELSE 0

\* any_arithmetic dispatches on the dynamic types of the two payloads: it has
\* a numeric result when both are numeric (and the divisor is not zero)
hasArithmetic(l, r, op) ==
    /\ l.literal.t = "int"
    /\ r.literal.t = "int"
    /\ op.type = "SLASH" => r.literal.n # 0

\* the string forms of two one-digit numbers compare as the numbers do
oneDigit(tok) == isNumber(tok) /\ tok.literal.n \in 0..9

\* strcmp / _BOOL_LOGIC on the string forms of two one-digit numbers
compare(l, r, op) ==
    CASE op.type = "GREATER"       -> l.literal.n > r.literal.n
      [] op.type = "GREATER_EQUAL" -> l.literal.n >= r.literal.n
      [] op.type = "LESS"          -> l.literal.n < r.literal.n
      [] op.type = "LESS_EQUAL"    -> l.literal.n <= r.literal.n
      [] op.type = "BANG_EQUAL"    -> l.literal.n # r.literal.n
      [] op.type = "EQUAL_EQUAL"   -> l.literal.n = r.literal.n

\* Token(NUMERICLITERAL, castNumberString(resAny), resAny, line)
NumResult(v) == Tok("NUMERICLITERAL", ToString(v), AnyNum(v))

RECURSIVE accept(_, _), visit_decls(_, _, _, _), visit_args(_, _, _)
RECURSIVE visit_elifs(_, _, _), for_loop(_, _, _, _)

\* Visitor::visit_literal
visit_literal(expr, st) ==
    LET val == expr.value
        res == getEnv(st.scopes, castString(val))
        idt == val.type \in {"IDENTIFIER", "C_IDENTIFIER"}
        literal == IF idt THEN res.literal ELSE val.literal
    IN  IF val.type = "NIL" THEN Ok(st, Tok("NIL", "nil", AnyNull))
        ELSE IF idt /\ res.type = "NIL"
             THEN runTimeError(st, "Undefined variable '" \o castString(val) \o "'")
        ELSE IF literal.t = "string"
             THEN Ok(st, Tok("STRINGLITERAL", literal.s, AnyNum(0)))
        ELSE IF literal.t = "int"
             THEN Ok(st, Tok("NUMERICLITERAL", ToString(literal.n), literal))
        ELSE IF literal.t = "nullptr"
             THEN Ok(st, Tok("NIL", "nil", AnyNull))
        ELSE IF literal.t = "bool"
             THEN Ok(st, Tok(IF literal.n = 1 THEN "TRUE" ELSE "FALSE",
                             ToString(literal.n), literal))
        ELSE IF res.type = "FUN" THEN Ok(st, res)
        ELSE runTimeError(st, "Unknown literal type")

\* Visitor::visit_binary, the operators evaluated specially: ??, && and ||
visit_short_circuit(expr, st) ==
    LET l  == accept(expr.left, note(st, "left"))
        r  == accept(expr.right, note(l.st, "right"))
        l2 == accept(expr.left, note(l.st, "left"))
    IN  IF l.kind # "ok" THEN l
        ELSE CASE expr.op.type = "NULLISH_COAL" ->
                    IF l.tok.type = "NIL" THEN r ELSE Ok(l.st, l.tok)
               [] expr.op.type = "LOG_AND" ->
                    IF truthy(l.tok)
                    THEN IF r.kind # "ok" THEN r ELSE Ok(r.st, BoolResult(truthy(r.tok)))
                    ELSE Ok(l.st, TokenDefault)
               [] expr.op.type = "LOG_OR" ->
                    IF truthy(l.tok)
                    THEN IF r.kind # "ok" THEN r ELSE Ok(r.st, BoolResult(TRUE))
                    ELSE IF l2.kind # "ok" THEN l2
                         ELSE Ok(l2.st, BoolResult(truthy(l2.tok)))

\* Visitor::visit_binary, the operators that depend on both operands
visit_both(expr, st) ==
    LET l == accept(expr.left, st)
        r == accept(expr.right, l.st)
    IN  IF l.kind # "ok" THEN l
        ELSE IF r.kind # "ok" THEN r
        ELSE CASE expr.op.type \in {"MINUS", "STAR", "SLASH"} ->
                    IF ~isNumber(l.tok) /\ ~isNumber(r.tok)
                    THEN runTimeError(r.st, "Expected a number for '"
                                            \o (IF expr.op.type = "STAR" THEN "*" ELSE "-")
                                            \o "' operator")
                    ELSE IF hasArithmetic(l.tok, r.tok, expr.op)
                         THEN Ok(r.st, NumResult(any_arithmetic(l.tok, r.tok, expr.op)))
                         ELSE ER(r.st, "any_arithmetic", TokenDefault, <<>>)
               [] expr.op.type = "PLUS" ->
                    IF (~isNumber(l.tok) /\ ~isNumber(r.tok))
                       /\ (~isString(l.tok) /\ ~isString(r.tok))
                    THEN runTimeError(r.st, "Expected a number or string for '+' operator")
                    ELSE IF isNumber(l.tok) /\ isNumber(r.tok)
                         THEN Ok(r.st, NumResult(any_arithmetic(l.tok, r.tok, expr.op)))
                    ELSE IF ~isString(l.tok) \/ ~isString(r.tok)
                         THEN IF (isString(l.tok) /\ isNumber(r.tok))
                                 \/ (isNumber(l.tok) /\ isString(r.tok))
                              THEN Ok(r.st, Tok("STRINGLITERAL",
                                                l.tok.lexeme \o r.tok.lexeme, AnyNum(0)))
                              ELSE runTimeError(r.st,
                                       "Expected a number or string for '+' operator")
                    ELSE Ok(r.st, Tok("STRINGLITERAL", l.tok.lexeme \o r.tok.lexeme,
                                      AnyNum(0)))
               [] expr.op.type \in {"GREATER", "GREATER_EQUAL", "LESS", "LESS_EQUAL",
                                    "BANG_EQUAL", "EQUAL_EQUAL"} ->
                    IF oneDigit(l.tok) /\ oneDigit(r.tok)
                    THEN Ok(r.st, BoolResult(compare(l.tok, r.tok, expr.op)))
                    ELSE ER(r.st, "strcmp", TokenDefault, <<>>)
               [] OTHER ->
                    runTimeError(r.st, "Unknown operator for a binary expression")

\* Visitor::visit_binary
visit_binary(expr, st) ==
    IF expr.op.type \in {"NULLISH_COAL", "LOG_AND", "LOG_OR"}
    THEN visit_short_circuit(expr, st)
    ELSE visit_both(expr, st)

\* Visitor::visit_assign
visit_assign(expr, st) ==
    LET name == castString(expr.name)
        v    == accept(expr.value, st)
        st1  == [envSet(v.st, name, v.tok) EXCEPT !.wrote = Bind(@, name, v.tok)]
    IN  IF v.kind # "ok" THEN v ELSE Ok(st1, getEnv(st1.scopes, name))

\* Visitor::visit_grouping
visit_grouping(expr, st) == accept(expr.expr, st)

\* Visitor::visit_unary
visit_unary(expr, st) ==
    LET right == accept(expr.expr, st)
        tok   == right.tok
        minus == Tok("NUMERICLITERAL", "-1", AnyNum(0 - 1))
        zero  == Tok("NUMERICLITERAL", "0", AnyNum(0))
        res   == IF tok.type \in {"TRUE", "FALSE"} THEN truthy(tok)
                 ELSE IF isNumber(tok)
                      THEN any_arithmetic(tok, zero, Tok("EQUAL_EQUAL", "==", AnyCStr(""))) = 1
                 ELSE castString(tok) = ""
    IN  IF right.kind # "ok" THEN right
        ELSE CASE expr.op.type = "MINUS" ->
                    IF ~isNumber(tok)
                    THEN runTimeError(right.st, "Expected a number after '-' operator")
                    ELSE Ok(right.st, NumResult(any_arithmetic(tok, minus,
                                                   Tok("STAR", "-", AnyCStr("")))))
               [] expr.op.type = "BANG" ->
                    IF tok.type \notin {"TRUE", "FALSE"} /\ ~isNumber(tok) /\ ~isString(tok)
                    THEN runTimeError(right.st,
                                      "Expected a number or string after '!' operator")
                    ELSE Ok(right.st, Tok(IF res THEN "TRUE" ELSE "FALSE",
                                          IF ~res THEN "1" ELSE "0", AnyBool(~res)))
               [] OTHER ->
                    runTimeError(right.st, "Unknown operator for a unary expression")

\* the loop of visit_call over expr.args, from argument i on
visit_args(args, i, st) ==
    IF i > Len(args) THEN Ok(st, TokenDefault)
    ELSE LET a == accept(args[i], st)
         IN  IF a.kind # "ok" THEN a ELSE visit_args(args, i + 1, a.st)

\* Visitor::visit_call
visit_call(expr, st) ==
    LET name == accept(expr.name, st)
        args == visit_args(expr.args, 1, name.st)
        body == accept(name.tok.literal.ptr, [args.st EXCEPT !.fuel = @ - 1])
        back == [body.st EXCEPT !.fuel = @ + 1]
    IN  IF name.kind # "ok" THEN name
        ELSE IF name.tok.type = "NIL"
             THEN runTimeError(name.st, "Undefined function '" \o name.tok.lexeme \o "'")
        ELSE IF args.kind # "ok" THEN args
        ELSE IF name.tok.literal.t # "Block*"
             THEN ER(args.st, "bad_any_cast", TokenDefault, <<>>)
        ELSE IF args.st.fuel = 0 THEN ER(args.st, "fuel", TokenDefault, <<>>)
        ELSE IF body.kind = "ok" THEN Ok(back, TokenDefault)
        ELSE IF body.kind = "return" THEN Ok(back, body.tok)
        ELSE ER(back, body.kind, body.tok, <<>>)

\* Visitor::visit_expr_stmt
visit_expr_stmt(stmt, st) == accept(stmt.expr, st)

\* Visitor::visit_print_stmt: res.at(0) throws std::out_of_range on an empty text
visit_print_stmt(stmt, st) ==
    LET val == accept(stmt.expr, st)
    IN  IF val.kind # "ok" THEN val
        ELSE IF val.tok.lexeme = "" THEN ER(val.st, "out_of_range", TokenDefault, <<>>)
        ELSE Ok([val.st EXCEPT !.out = Append(@, val.tok.lexeme)], val.tok)

\* the body of one branch of an if statement: its block, else its statement
visit_branch(branch, st, what) ==
    LET r == IF branch.blk # NullNode THEN accept(branch.blk, st)
             ELSE IF branch.stmt # NullNode THEN accept(branch.stmt, st)
             ELSE runTimeError(st, what \o " statement should have a statement or block")
    IN  IF r.kind # "ok" THEN r ELSE Ok(r.st, TokenDefault)

\* the else branch of visit_if_stmt
visit_else(else_stmt, st) ==
    IF else_stmt = NullNode THEN Ok(st, TokenDefault)
    ELSE visit_branch(else_stmt, st, "Else")

\* the loop of visit_if_stmt over elif_stmts, from branch i on, then the else
visit_elifs(stmt, i, st) ==
    IF i > Len(stmt.elif_stmts) THEN visit_else(stmt.else_stmt, st)
    ELSE LET b == stmt.elif_stmts[i]
             c == accept(b.expr, st)
         IN  IF b.expr = NullNode
             THEN runTimeError(st, "Elif statement expression should not be null")
             ELSE IF c.kind # "ok" THEN c
             ELSE IF truthy(c.tok) THEN visit_branch(b, c.st, "Elif")
             ELSE visit_elifs(stmt, i + 1, c.st)

\* Visitor::visit_if_stmt: std::move(if_stmt->expr) leaves the node's expr
\* null, which st.moved records
visit_if_stmt(stmt, st) ==
    LET expr == IF stmt.id \in st.moved THEN NullNode ELSE stmt.if_stmt.expr
        st1  == [st EXCEPT !.moved = @ \cup {stmt.id}]
        c    == accept(expr, note(st1, "if"))
    IN  IF expr = NullNode
        THEN runTimeError(st1, "If statement expression should not be null")
        ELSE IF c.kind # "ok" THEN c
        ELSE IF truthy(c.tok) THEN visit_branch(stmt.if_stmt, c.st, "If")
        ELSE visit_elifs(stmt, 1, c.st)

\* the while loop of visit_for, n iterations done
for_loop(decl, st, toks, n) ==
    LET c    == accept(decl.expr, note(st, "cond"))
        b    == IF decl.stmt_o # NullNode THEN accept(decl.stmt_o, note(c.st, "body"))
                ELSE IF decl.blk # NullNode THEN accept(decl.blk, note(c.st, "body"))
                ELSE runTimeError(c.st, "For statement should have a statement or block")
        toks1 == IF decl.stmt_o # NullNode THEN Append(toks, b.tok) ELSE b.toks \o toks
        r    == IF decl.stmt_r # NullNode THEN accept(decl.stmt_r, note(b.st, "step"))
                ELSE Ok(b.st, TokenDefault)
    IN  IF c.kind # "ok" THEN c
        ELSE IF ~truthy(c.tok) THEN OkToks(c.st, toks)
        ELSE IF n >= MaxIter THEN ER(c.st, "fuel", TokenDefault, <<>>)
        ELSE IF b.kind # "ok" THEN b
        ELSE IF r.kind # "ok" THEN r
        ELSE for_loop(decl, r.st, toks1, n + 1)

\* Visitor::visit_for
visit_for(decl, st) ==
    LET init == IF decl.decl # NullNode THEN accept(decl.decl, note(st, "init"))
                ELSE IF decl.stmt_l # NullNode THEN accept(decl.stmt_l, note(st, "init"))
                ELSE Ok(st, TokenDefault)
    IN  IF init.kind # "ok" THEN init ELSE for_loop(decl, init.st, <<>>, 0)

\* a faulty variant: a return that yields its value without unwinding
visit_return_stmt_no_throw(stmt, st) == accept(stmt.expr, st)

\* Visitor::visit_return_stmt: throw StmtReturnException(val)
visit_return_stmt(stmt, st) ==
    LET val == accept(stmt.expr, st)
    IN  IF val.kind # "ok" THEN val ELSE ER(val.st, "return", val.tok, <<>>)

\* the loop of visit_block_stmt and of visit_program over decls, from i on
visit_decls(decls, i, st, toks) ==
    IF i > Len(decls) THEN OkToks(st, toks)
    ELSE LET its == accept(decls[i], st)
         IN  IF its.kind # "ok" THEN its
             ELSE visit_decls(decls, i + 1, its.st, toks \o its.toks)

\* Visitor::visit_block_stmt
visit_block_stmt(blk, st) ==
    LET r == visit_decls(blk.decls, 1, [st EXCEPT !.scopes = addChild(@)], <<>>)
    IN  IF r.kind # "ok" THEN r
        ELSE [r EXCEPT !.st.scopes = removeChild(@)]

\* Visitor::visit_program
visit_program(prgm, st) == visit_decls(prgm.decls, 1, st, <<>>)

\* Visitor::visit_decl_stmt
visit_decl_stmt(decl, st) ==
    LET r == accept(decl.stmt, st)
    IN  IF r.kind # "ok" THEN r ELSE OkToks(r.st, <<r.tok>>)

\* Visitor::visit_decl_var
visit_decl_var(decl, st) ==
    IF decl.expr # NullNode
    THEN LET r == accept(decl.expr, st)
         IN  IF r.kind # "ok" THEN r ELSE OkToks(r.st, <<r.tok>>)
    ELSE OkToks(envSet(st, decl.identifier.lexeme, NilTok), <<NilTok>>)

\* Visitor::visit_decl_func: decl.func->blk is null once it was released
visit_decl_func(decl, st) ==
    LET name == decl.name
    IN  IF getEnv(st.scopes, castString(name)).type # "NIL"
        THEN runTimeError(st, "Function '" \o name.lexeme \o "' already defined")
        ELSE IF decl.id \notin st.moved
             THEN OkToks(envSet([st EXCEPT !.moved = @ \cup {decl.id}], castString(name),
                                Tok("FUN", "function", AnyBlock(decl.blk))),
                         <<name>>)
             ELSE OkToks(envSet(st, castString(name), NilTok), <<name>>)

\* node.accept(visitor): the double dispatch on the node's kind
accept(node, st) ==
    CASE node.k = "Literal"    -> visit_literal(node, st)
      [] node.k = "Binary"     -> visit_binary(node, st)
      [] node.k = "Assign"     -> visit_assign(node, st)
      [] node.k = "Grouping"   -> visit_grouping(node, st)
      [] node.k = "Unary"      -> visit_unary(node, st)
      [] node.k = "StmtIf"     -> visit_if_stmt(node, st)
      [] node.k = "For"        -> visit_for(node, st)
      [] node.k = "Call"       -> visit_call(node, st)
      [] node.k = "StmtExpr"   -> visit_expr_stmt(node, st)
      [] node.k = "StmtPrint"  -> visit_print_stmt(node, st)
      [] node.k = "StmtReturn" -> visit_return_stmt(node, st)
      [] node.k = "Block"      -> visit_block_stmt(node, st)
      [] node.k = "Program"    -> visit_program(node, st)
      [] node.k = "DeclStmt"   -> visit_decl_stmt(node, st)
      [] node.k = "DeclVar"    -> visit_decl_var(node, st)
      [] node.k = "DeclFunc"   -> visit_decl_func(node, st)

\* the display form Eval::evaluate pushes for one result token
Display(tok) ==
    IF isNumber(tok) THEN tok.lexeme
    ELSE IF isString(tok) THEN tok.lexeme
    ELSE IF tok.literal.t = "bool" THEN (IF tok.literal.n = 1 THEN "true" ELSE "false")
    ELSE IF tok.literal.t = "nullptr" THEN "null"
    ELSE "undefined"

\* Eval::evaluate, given the outcome r of the visit of the Program: the
\* result tokens in their display form, or the catch of
\* std::runtime_error, whose handler calls error::runTimeError(e.what()).
\* uncaught is the exception that leaves evaluate(), "" when none does.
evaluate_try(r) ==
    LET h == runTimeError(r.st, r.st.calls[Len(r.st.calls)])
    IN  IF r.kind = "ok"
        THEN [st |-> r.st, raised |-> "", caught |-> FALSE, uncaught |-> "",
              res |-> [i \in 1..Len(r.toks) |-> Display(r.toks[i])], toks |-> r.toks]
        ELSE IF r.kind = "runtime_error"
             THEN [st |-> h.st, raised |-> r.kind, caught |-> TRUE, uncaught |-> h.kind,
                   res |-> <<>>, toks |-> <<>>]
        ELSE [st |-> r.st, raised |-> r.kind, caught |-> FALSE, uncaught |-> r.kind,
              res |-> <<>>, toks |-> <<>>]

\* Eval::evaluate(prgm) on the Environment chain
evaluate(prgm, chain, mv) == evaluate_try(accept(prgm, NewVisitor(chain, mv)))

(***************************************************************************)
(* Inputs.  Forms are Programs built node by node, as a caller of          *)
(* Eval::evaluate may build them; Streams are token streams as the scanner *)
(* hands them to Parser::parse.                                            *)
(***************************************************************************)
Num(v) == Literal(NumTok(v))

Id(name) == Literal(IdTok(name))

ExprDecl(expr) == DeclStmt(StmtExpr(expr))

\* { return 1; }
BodyReturn == Block(<<DeclStmt(StmtReturn(Num(1)))>>)

\* { { return 2; } }
BodyNestedReturn == Block(<<Block(<<DeclStmt(StmtReturn(Num(2)))>>)>>)

Forms ==
    << Program(<<DeclVar(IdTok("x"), NullNode)>>),                        \* var x;
       Program(<<DeclVar(IdTok("x"), Num(1))>>),                          \* var x = 1;
       Program(<<ExprDecl(Id("x"))>>),                                    \* x;
       Program(<<ExprDecl(Assign(IdTok("x"), Num(1)))>>),                 \* x = 1;
       Program(<<ExprDecl(Assign(IdTok("x"), Num(2)))>>),                 \* x = 2;
       Program(<<Block(<<DeclVar(IdTok("y"), NullNode),
                         ExprDecl(Assign(IdTok("x"), Num(2)))>>)>>),      \* { var y; x = 2; }
       Program(<<DeclFunc(1, IdTok("f"), BodyReturn)>>),                  \* fun f() { return 1; }
       Program(<<DeclFunc(2, IdTok("f"), BodyNestedReturn)>>),            \* fun f() {{ return 2; }}
       Program(<<ExprDecl(Call(Id("f"), <<>>))>>),                        \* f();
       Program(<<Block(<<DeclVar(IdTok("y"), NullNode),
                         ExprDecl(Call(Id("f"), <<>>))>>)>>),             \* { var y; f(); }
       Program(<<Block(<<ExprDecl(Assign(IdTok("x"), Num(1))),
                         ExprDecl(Id("y"))>>)>>),                         \* { x = 1; y; }
       Program(<<ExprDecl(Assign(IdTok("x"), Num(1))),
                 ExprDecl(Binary(Num(1), Sym("MINUS", "-"), Num(2))),
                 ExprDecl(Binary(Literal(Sym("NIL", "nil")), Sym("MINUS", "-"),
                                 Literal(Sym("NIL", "nil"))))>>)          \* x = 1; 1 - 2; nil - nil;
    >>

VarT == Sym("VAR", "var")

SemiT == Sym("SEMICOLON", ";")

EqT == Sym("EQUAL", "=")

OneT == Tok("NUMERICLITERAL", "1", AnyNum(1))

TwoT == Tok("NUMERICLITERAL", "2", AnyNum(2))

Streams ==
    { <<VarT, IdTok("x"), SemiT>>,                                        \* var x;
      <<VarT, IdTok("x"), EqT, OneT, SemiT>>,                             \* var x = 1;
      <<VarT, IdTok("x"), SemiT, VarT, IdTok("x"), SemiT>>,               \* var x; var x;
      <<IdTok("x"), EqT, TwoT, SemiT>>,                                   \* x = 2;
      <<IdTok("x"), SemiT>>,                                              \* x;
      <<Sym("LEFT_BRACE", "{"), VarT, IdTok("y"), SemiT,
        IdTok("x"), EqT, OneT, SemiT, Sym("RIGHT_BRACE", "}")>>,          \* { var y; x = 1; }
      <<Sym("PRINT", "print"), Sym("LEFT_PAREN", "("), IdTok("x"),
        Sym("RIGHT_PAREN", ")"), SemiT>> }                                \* print(x);

(***************************************************************************)
(* The state: the Environment singleton (env), the DeclFunc nodes whose    *)
(* body was moved into the Environment (moved), the token stream the       *)
(* scanner handed over and parse() has not consumed yet (input, <<>> when  *)
(* none), the Program the last parse() returned and evaluate() has not     *)
(* consumed yet (parsed), and a record of the last operation with what it  *)
(* was given and what it returned (last).                                  *)
(* last.live is carried from one Environment operation to the next.        *)
(***************************************************************************)
VARIABLES env, moved, input, parsed, last

vars == <<env, moved, input, parsed, last>>

NoOp ==
    [op |-> "none", name |-> "", tok |-> TokenDefault, pre |-> <<EmptyScope>>,
     form |-> NullNode, tokens |-> <<>>, perr |-> <<>>,
     raised |-> "", caught |-> FALSE, uncaught |-> "", res |-> <<>>, calls |-> <<>>,
     out |-> <<>>, fresh |-> {}, wrote |-> EmptyScope, toks |-> <<>>, log |-> <<>>,
     live |-> EmptyScope]

Init ==
    /\ env = <<EmptyScope>>
    /\ moved = {}
    /\ input = <<>>
    /\ parsed = NullNode
    /\ last = NoOp

\* Parser(tokens).parse() against the current Environment
Parse(tokens) ==
    /\ LET r == parse(tokens, env)
       IN  /\ parsed' = r.node
           /\ last' = [NoOp EXCEPT !.op = "parse", !.pre = env, !.tokens = tokens,
                                   !.form = r.node, !.perr = r.ps.raised]
    /\ input' = <<>>
    /\ UNCHANGED <<env, moved>>

\* what Eval::evaluate(prgm) leaves behind
Evaluated(prgm) ==
    \E e \in {evaluate(prgm, env, moved)} :
        /\ Len(e.st.scopes) <= MaxDepth
        /\ env' = e.st.scopes
        /\ moved' = e.st.moved
        /\ parsed' = NullNode
        /\ UNCHANGED input
        /\ last' = [NoOp EXCEPT !.op = "evaluate", !.pre = env, !.form = prgm,
                                !.raised = e.raised, !.caught = e.caught,
                                !.uncaught = e.uncaught, !.res = e.res,
                                !.calls = e.st.calls, !.out = e.st.out,
                                !.fresh = e.st.fresh, !.wrote = e.st.wrote,
                                !.toks = e.toks, !.log = e.st.log]

\* Eval::evaluate on a Program built node by node
Evaluate(i) ==
    /\ parsed = NullNode
    /\ Evaluated(Forms[i])

\* Eval::evaluate on the Program parse() just returned
Run ==
    /\ parsed # NullNode
    /\ Evaluated(parsed)

Next ==
    \/ \E tokens \in Streams : Parse(tokens)
    \/ \E i \in 1..Len(Forms) : Evaluate(i)
    \/ Run

Spec == Init /\ [][Next]_vars

(***************************************************************************)
(* The Environment on its own: get and set applied to any chain of scopes, *)
(* shadowed names included.                                                *)
(***************************************************************************)
EnvNames == {"x", "y"}

EnvValues == {NumTok(1), NilTok}

Scopes == UNION {[D -> EnvValues] : D \in SUBSET EnvNames}

Chains == UNION {[1..n -> Scopes] : n \in 1..MaxChain}

InitEnv ==
    /\ env \in Chains
    /\ moved = {}
    /\ input = <<>>
    /\ parsed = NullNode
    /\ last = NoOp

\* The sets that were not popped, kept in last.live: for each name the value
\* of its most recent set and the depth of the chain when the name was first
\* set.  A set of a name that is live writes to the scope that holds it.
Written(live, name, value, depth) ==
    Bind(live, name, [tok |-> value,
                      depth |-> IF name \in DOMAIN live THEN live[name].depth ELSE depth])

\* the pop of the scope at depth takes the sets made into it
Popped(live, depth) ==
    [n \in {m \in DOMAIN live : live[m].depth < depth} |-> live[n]]

\* Environment::getInstance().getEnv(name)
Get(name) ==
    /\ last' = [NoOp EXCEPT !.op = "get", !.name = name, !.pre = env,
                            !.tok = getEnv(env, name), !.live = last.live]
    /\ UNCHANGED <<env, moved, input, parsed>>

\* Environment::getInstance().setEnv(name, value, false)
Set(name, value) ==
    /\ env' = setEnv(env, name, value)
    /\ last' = [NoOp EXCEPT !.op = "set", !.name = name, !.pre = env, !.tok = value,
                            !.live = Written(last.live, name, value, Len(env))]
    /\ UNCHANGED <<moved, input, parsed>>

\* Environment::addChild()
AddChild ==
    /\ Len(env) < MaxDepth
    /\ env' = addChild(env)
    /\ last' = [NoOp EXCEPT !.op = "addChild", !.pre = env, !.live = last.live]
    /\ UNCHANGED <<moved, input, parsed>>

\* Environment::removeChild()
RemoveChild ==
    /\ Len(env) > 1
    /\ env' = removeChild(env)
    /\ last' = [NoOp EXCEPT !.op = "removeChild", !.pre = env,
                            !.live = Popped(last.live, Len(env))]
    /\ UNCHANGED <<moved, input, parsed>>

NextEnv ==
    \/ \E name \in EnvNames : Get(name)
    \/ \E name \in EnvNames : \E value \in EnvValues : Set(name, value)
    \/ AddChild
    \/ RemoveChild

SpecEnv == InitEnv /\ [][NextEnv]_vars

\* the Environment operations from the single empty global scope
SpecScopes == Init /\ [][NextEnv]_vars

(***************************************************************************)
(* The expression parser on its own: every chain of operands and binary    *)
(* operators, and every parenthesized chain followed by an operator.       *)
(***************************************************************************)
OperandNames == <<"a", "b", "c", "d", "e">>

BinaryOps ==
    { Sym("BANG_EQUAL", "!="), Sym("EQUAL_EQUAL", "=="),
      Sym("GREATER", ">"), Sym("GREATER_EQUAL", ">="), Sym("LESS", "<"),
      Sym("LESS_EQUAL", "<="),
      Sym("MINUS", "-"), Sym("PLUS", "+"),
      Sym("STAR", "*"), Sym("SLASH", "/") }

\* operand 1, ops[1], operand 2, ..., operand n
Chain(ops) ==
    [i \in 1..(2 * Len(ops) + 1) |->
        IF i % 2 = 1 THEN IdTok(OperandNames[(i + 1) \div 2]) ELSE ops[i \div 2]]

Chains1 == UNION {{Chain(ops) : ops \in [1..(n - 1) -> BinaryOps]} : n \in 1..MaxOperands}

\* a chain as an expression statement
ChainStreams == {c \o <<SemiT>> : c \in Chains1}

\* '(' chain ')' op operand ';'
ParenStreams ==
    {<<Sym("LEFT_PAREN", "(")>> \o c \o <<Sym("RIGHT_PAREN", ")"), op, IdTok("c"), SemiT>> :
        c \in {d \in Chains1 : Len(d) <= 3}, op \in BinaryOps}

InitParse ==
    /\ env = <<EmptyScope>>
    /\ moved = {}
    /\ input \in ChainStreams \cup ParenStreams
    /\ parsed = NullNode
    /\ last = NoOp

\* the parse of the stream the scanner handed over
ParseInput ==
    /\ input # <<>>
    /\ Parse(input)

NextParse ==
    \/ ParseInput
    \/ Run

SpecParse == InitParse /\ [][NextParse]_vars

\* the stream is a chain of operands and binary operators, then ';'
IsChain(tokens) ==
    /\ Len(tokens) % 2 = 0
    /\ tokens[Len(tokens)] = SemiT
    /\ \A i \in 1..(Len(tokens) - 1) :
           IF i % 2 = 1 THEN tokens[i].type = "IDENTIFIER" ELSE tokens[i] \in BinaryOps

\* the stream starts with a parenthesized chain
IsParen(tokens) == Len(tokens) > 0 /\ tokens[1].type = "LEFT_PAREN"

(***************************************************************************)
(* Claims.                                                                 *)
(***************************************************************************)
\* the scopes of a chain that bind name
Holders(chain, name) == {i \in 1..Len(chain) : name \in DOMAIN chain[i]}

\* the outermost scope of a chain that binds name
Outermost(chain, name) ==
    CHOOSE i \in Holders(chain, name) : \A j \in Holders(chain, name) : i <= j

\* C2: get(name) returns the binding of the outermost scope that binds name,
\* the sentinel Token() (NIL-typed, empty lexeme) when no scope binds it, and
\* leaves every scope as it was.
C2_GetOutermostFirst ==
    last.op = "get" =>
        /\ env = last.pre
        /\ IF Holders(env, last.name) = {}
           THEN last.tok.type = "NIL" /\ last.tok.lexeme = ""
           ELSE last.tok = env[Outermost(env, last.name)][last.name]

\* C2 witness: a get of a name that two scopes bind to different values
C2_Witness ==
    /\ last.op = "get"
    /\ \E i, j \in Holders(env, last.name) :
           i < j /\ env[i][last.name] # env[j][last.name] /\ last.tok = env[i][last.name]

\* C3: set(name, value) overwrites the binding of the outermost scope that
\* binds name, or binds name in the innermost scope when no scope binds it;
\* no other binding changes and the number of scopes stays.
C3_SetOneBinding ==
    last.op = "set" =>
        LET pre    == last.pre
            target == IF Holders(pre, last.name) = {} THEN Len(pre)
                      ELSE Outermost(pre, last.name)
        IN  /\ Len(env) = Len(pre)
            /\ \A i \in 1..Len(pre) :
                   /\ DOMAIN env[i] = IF i = target THEN DOMAIN pre[i] \cup {last.name}
                                      ELSE DOMAIN pre[i]
                   /\ \A n \in DOMAIN env[i] :
                          env[i][n] = IF i = target /\ n = last.name THEN last.tok
                                      ELSE pre[i][n]

\* C3 witness: a set of an unbound name on a chain of two or more scopes, and
\* so bound in the innermost one
C3_Witness ==
    /\ last.op = "set"
    /\ Len(last.pre) >= 2
    /\ Holders(last.pre, last.name) = {}
    /\ last.name \in DOMAIN env[Len(env)]

\* C1: whatever way a Block is left (normal exit, runtime error, return
\* caught by the enclosing Call), the scope depth after the evaluation equals
\* the depth before it.
C1_ScopeDepthRestored ==
    last.op = "evaluate" => Len(env) = Len(last.pre)

\* the last operation evaluated a Program that is one Block and ended normally
BlockEndedNormally ==
    /\ last.op = "evaluate"
    /\ last.raised = ""
    /\ Len(last.form.decls) = 1
    /\ last.form.decls[1].k = "Block"

\* C4: after a Block that exits normally every name first bound while the
\* block's scope was the innermost one is unbound again, and every name bound
\* in an enclosing scope and assigned in the block reads as last written.
C4_BlockScopingWriteThrough ==
    BlockEndedNormally =>
        /\ \A b \in last.fresh :
               b.depth = Len(last.pre) + 1 => TokenEq(getEnv(env, b.name), TokenDefault)
        /\ \A n \in DOMAIN last.wrote :
               Bound(last.pre, n) => getEnv(env, n) = last.wrote[n]

\* the last operation evaluated the read of x: `x;`
ReadX == last.op = "evaluate" /\ last.form = Forms[3]

\* C5: reading x raises "Undefined variable 'x'" exactly when no scope binds
\* x; an x bound to nil reads as NIL without an error.
C5_UndefinedOnlyWhenUnbound ==
    ReadX =>
        /\ ~Bound(last.pre, "x") =>
               last.raised = "runtime_error" /\ last.calls[1] = "Undefined variable 'x'"
        /\ Bound(last.pre, "x") => last.raised = ""

\* `var x; var x;`
DeclaredTwice == <<VarT, IdTok("x"), SemiT, VarT, IdTok("x"), SemiT>>

\* C6: a stream that declares x twice, or declares an x that is bound
\* already, raises exactly one parse error, "already declared".
C6_DoubleDeclareDetected ==
    /\ (last.op = "parse" /\ last.tokens = DeclaredTwice) =>
           last.perr = <<"Variable already declared">>
    /\ (last.op = "parse" /\ last.tokens = <<VarT, IdTok("x"), SemiT>>
            /\ Bound(last.pre, "x")) =>
           last.perr = <<"Variable already declared">>

\* C7: the declaration of a fresh x is not rejected at parse time; after
\* `var x = 1;` is evaluated without error x reads 1, and after `var x;`
\* x is bound to NIL.
C7_DeclarationBinds ==
    /\ (last.op = "parse" /\ ~Bound(last.pre, "x")
            /\ last.tokens \in {<<VarT, IdTok("x"), SemiT>>,
                                <<VarT, IdTok("x"), EqT, OneT, SemiT>>}) =>
           last.perr = <<>>
    /\ (last.op = "evaluate" /\ last.raised = "" /\ ~Bound(last.pre, "x")
            /\ last.form = Forms[2]) =>
           getEnv(env, "x").literal = AnyNum(1)
    /\ (last.op = "evaluate" /\ ~Bound(last.pre, "x")
            /\ last.form = parse(<<VarT, IdTok("x"), SemiT>>, <<EmptyScope>>).node) =>
           last.raised = "" /\ getEnv(env, "x").type = "NIL" /\ Bound(env, "x")

\* the precedence level of a binary operator: equality < comparison < term < factor
Level(op) ==
    CASE op.type \in {"BANG_EQUAL", "EQUAL_EQUAL"} -> 1
      [] op.type \in {"GREATER", "GREATER_EQUAL", "LESS", "LESS_EQUAL"} -> 2
      [] op.type \in {"MINUS", "PLUS"} -> 3
      [] op.type \in {"STAR", "SLASH"} -> 4

RECURSIVE InOrder(_)
\* the tokens of an expression tree, left to right
InOrder(e) ==
    CASE e.k = "Literal"  -> <<e.value>>
      [] e.k = "Binary"   -> InOrder(e.left) \o <<e.op>> \o InOrder(e.right)
      [] e.k = "Grouping" -> InOrder(e.expr)
      [] OTHER            -> <<>>

RECURSIVE Climbs(_)
\* every Binary node binds no tighter than its left operand and strictly
\* looser than its right operand
Climbs(e) ==
    IF e.k # "Binary" THEN e.k = "Literal"
    ELSE /\ Climbs(e.left)
         /\ Climbs(e.right)
         /\ e.left.k = "Binary" => Level(e.left.op) >= Level(e.op)
         /\ e.right.k = "Binary" => Level(e.right.op) > Level(e.op)

\* the expression of a parsed Program that is one expression statement
OnlyExpr(prgm) == prgm.decls[1].stmt.expr

OneExprStmt(prgm) ==
    /\ prgm.k = "Program"
    /\ Len(prgm.decls) = 1
    /\ prgm.decls[1].k = "DeclStmt"
    /\ prgm.decls[1].stmt.k = "StmtExpr"

PlusT == Sym("PLUS", "+")

MinusT == Sym("MINUS", "-")

StarT == Sym("STAR", "*")

\* C8: a chain of operands and binary operators parses to the tree the
\* precedence levels dictate, left-associative inside a level; a + b * c is
\* Binary(a, +, Binary(b, *, c)) and a - b - c is Binary(Binary(a, -, b), -, c).
C8_PrecedenceClimbing ==
    (last.op = "parse" /\ IsChain(last.tokens)) =>
        /\ last.perr = <<>>
        /\ OneExprStmt(parsed)
        /\ InOrder(OnlyExpr(parsed)) \o <<SemiT>> = last.tokens
        /\ Climbs(OnlyExpr(parsed))
        /\ last.tokens = <<IdTok("a"), PlusT, IdTok("b"), StarT, IdTok("c"), SemiT>> =>
               OnlyExpr(parsed) = Binary(Id("a"), PlusT, Binary(Id("b"), StarT, Id("c")))
        /\ last.tokens = <<IdTok("a"), MinusT, IdTok("b"), MinusT, IdTok("c"), SemiT>> =>
               OnlyExpr(parsed) = Binary(Binary(Id("a"), MinusT, Id("b")), MinusT, Id("c"))

\* C8 witness: a - b - c was parsed, to the left-leaning tree
C8_Witness ==
    /\ last.op = "parse"
    /\ last.tokens = <<IdTok("a"), MinusT, IdTok("b"), MinusT, IdTok("c"), SemiT>>
    /\ OneExprStmt(parsed)
    /\ OnlyExpr(parsed).left.k = "Binary"

\* C9: '(' inner ')' op c parses to Binary(Grouping(inner), op, c); (a + b) * c
\* is Binary(Grouping(Binary(a, +, b)), *, c).
C9_GroupingWraps ==
    (last.op = "parse" /\ IsParen(last.tokens)) =>
        /\ last.perr = <<>>
        /\ OneExprStmt(parsed)
        /\ OnlyExpr(parsed).k = "Binary"
        /\ OnlyExpr(parsed).left.k = "Grouping"
        /\ OnlyExpr(parsed).right = Id("c")

\* C10: a runtime error raised while a Program is evaluated is caught by
\* evaluate(), which hands it to the reporter once and returns: nothing
\* leaves evaluate() as an exception, and runTimeError was called twice in
\* all, once to raise the error and once to report it.
C10_RuntimeErrorCaught ==
    (last.op = "evaluate" /\ last.raised = "runtime_error") =>
        /\ last.caught
        /\ last.uncaught = ""
        /\ Len(last.calls) = 2

(***************************************************************************)
(* The evaluator on its own: Eval::evaluate applied once to a Program      *)
(* built node by node, on the Environment of a fresh run.                  *)
(***************************************************************************)
\* fun name() body
Fun(id, name, body) == DeclFunc(id, IdTok(name), body)

\* name();
CallStmt(name) == ExprDecl(Call(Id(name), <<>>))

\* x = 2;
SetX2 == ExprDecl(Assign(IdTok("x"), Num(2)))

\* the expressions a `return` carries
RetExprs == {Num(1), Num(2), Literal(StrTok("a")), Binary(Num(1), Sym("PLUS", "+"), Num(2))}

\* the return of e, inside depth nested blocks
RECURSIVE Nested(_, _)
Nested(decl, depth) == IF depth = 0 THEN decl ELSE Block(<<Nested(decl, depth - 1)>>)

\* fun f() { <return e; at depth> x = 2; }  f();
ReturnProgram(e, depth) ==
    Program(<<Fun(1, "f", Block(<<Nested(DeclStmt(StmtReturn(e)), depth), SetX2>>)),
              CallStmt("f")>>)

\* fun f() { x = 2; }  f();
NoReturnProgram == Program(<<Fun(1, "f", Block(<<SetX2>>)), CallStmt("f")>>)

\* fun g() { return 1; }  fun f() { g(); return 2; }  f();
InnerCallProgram ==
    Program(<<Fun(1, "g", BodyReturn),
              Fun(2, "f", Block(<<CallStmt("g"), DeclStmt(StmtReturn(Num(2)))>>)),
              CallStmt("f")>>)

CallPrograms ==
    {ReturnProgram(e, depth) : e \in RetExprs, depth \in 0..1}
        \cup {NoReturnProgram, InnerCallProgram}

\* the operands: true, false, nil, 0, 1, "" and "a"
Vals ==
    {Literal(BoolTok(TRUE)), Literal(BoolTok(FALSE)), Literal(Sym("NIL", "nil")),
     Num(0), Num(1), Literal(StrTok("")), Literal(StrTok("a"))}

OrT == Sym("LOG_OR", "||")

AndT == Sym("LOG_AND", "&&")

NullishT == Sym("NULLISH_COAL", "??")

BangT == Sym("BANG", "!")

\* a op b;
OpProgram(a, op, b) == Program(<<ExprDecl(Binary(a, op, b))>>)

\* a op (y = b);
OpSetProgram(a, op, b) == Program(<<ExprDecl(Binary(a, op, Assign(IdTok("y"), b)))>>)

\* !v;
NotProgram(v) == Program(<<ExprDecl(Unary(BangT, v))>>)

ShortCircuitOps == {OrT, AndT, NullishT}

ArithmeticOps == {Sym("MINUS", "-"), Sym("STAR", "*"), Sym("SLASH", "/")}

OpPrograms ==
    {OpProgram(a, op, b) : a \in Vals, op \in {OrT} \cup ArithmeticOps, b \in Vals}
        \cup {OpSetProgram(ab[1], op, ab[2]) : ab \in Vals \X Vals, op \in ShortCircuitOps}
        \cup {NotProgram(v) : v \in Vals}

\* fun f() { return 1; }
DeclareProgram == Program(<<Fun(1, "f", BodyReturn)>>)

\* fun f() { return 1; }  fun f() { { return 2; } }
RedeclareProgram == Program(<<Fun(1, "f", BodyReturn), Fun(2, "f", BodyNestedReturn)>>)

\* var f;  fun f() { return 1; }
VarThenFunProgram ==
    Program(<<DeclVar(IdTok("f"), NullNode), Fun(1, "f", BodyReturn)>>)

\* fun g() { fun h() { x = 2; }  h(); }  g();  g();
DeclareAgainProgram ==
    Program(<<Fun(1, "g", Block(<<Fun(2, "h", Block(<<SetX2>>)), CallStmt("h")>>)),
              CallStmt("g"), CallStmt("g")>>)

FunPrograms == {DeclareProgram, RedeclareProgram, VarThenFunProgram, DeclareAgainProgram}

\* name = value
SetTo(name, value) == Assign(IdTok(name), value)

\* name = name + by
AddTo(name, by) == Assign(IdTok(name), Binary(Id(name), Sym("PLUS", "+"), by))

LessT == Sym("LESS", "<")

\* y = 0;  for (x = 0; x < n; x = x + 1) { y = y + x; }
ForBlockProgram(n) ==
    Program(<<ExprDecl(SetTo("y", Num(0))),
              For(NullNode, StmtExpr(SetTo("x", Num(0))), Binary(Id("x"), LessT, Num(n)),
                  NullNode, Block(<<ExprDecl(AddTo("y", Id("x")))>>),
                  StmtExpr(AddTo("x", Num(1))))>>)

\* y = 0;  for (x = 0; x < n; x = x + 1) y = y + x;
ForStmtProgram(n) ==
    Program(<<ExprDecl(SetTo("y", Num(0))),
              For(NullNode, StmtExpr(SetTo("x", Num(0))), Binary(Id("x"), LessT, Num(n)),
                  StmtExpr(AddTo("y", Id("x"))), NullNode,
                  StmtExpr(AddTo("x", Num(1))))>>)

\* var i = 0;  for (var j = 0; j < 3; j = j + 1) { i = i + j; }
ForVarProgram ==
    Program(<<DeclVar(IdTok("i"), Num(0)),
              For(DeclVar(IdTok("j"), Num(0)), NullNode, Binary(Id("j"), LessT, Num(3)),
                  NullNode, Block(<<ExprDecl(AddTo("i", Id("j")))>>),
                  StmtExpr(AddTo("j", Num(1))))>>)

\* the same loop with each declaration in the shape Parser::declaration_variable
\* builds, DeclVar(name, Assign(name, value))
ForVarAssignProgram ==
    Program(<<DeclVar(IdTok("i"), SetTo("i", Num(0))),
              For(DeclVar(IdTok("j"), SetTo("j", Num(0))), NullNode,
                  Binary(Id("j"), LessT, Num(3)),
                  NullNode, Block(<<ExprDecl(AddTo("i", Id("j")))>>),
                  StmtExpr(AddTo("j", Num(1))))>>)

\* the loops run 0 to MaxIter - 1 times
Turns == 0..(MaxIter - 1)

ForPrograms ==
    {ForBlockProgram(n) : n \in Turns} \cup {ForStmtProgram(n) : n \in Turns}
        \cup {ForVarProgram, ForVarAssignProgram}

\* if (cond) y = 1; else y = 2;
IfElse(id, cond) ==
    DeclStmt(StmtIf(id, Branch(cond, NullNode, StmtExpr(SetTo("y", Num(1)))), <<>>,
                    Branch(NullNode, NullNode, StmtExpr(SetTo("y", Num(2))))))

\* if (v) y = 1; else y = 2;
IfProgram(v) == Program(<<IfElse(1, v)>>)

\* for (x = 0; x < 2; x = x + 1) { if (x < 1) y = 1; else y = 2; }
IfInForProgram ==
    Program(<<For(NullNode, StmtExpr(SetTo("x", Num(0))), Binary(Id("x"), LessT, Num(2)),
                  NullNode, Block(<<IfElse(1, Binary(Id("x"), LessT, Num(1)))>>),
                  StmtExpr(AddTo("x", Num(1))))>>)

\* x = 0;  fun f() { if (x < 1) y = 1; else y = 2;  x = x + 1; }  f();  f();
IfInFunProgram ==
    Program(<<ExprDecl(SetTo("x", Num(0))),
              Fun(2, "f", Block(<<IfElse(1, Binary(Id("x"), LessT, Num(1))),
                                  ExprDecl(AddTo("x", Num(1)))>>)),
              CallStmt("f"), CallStmt("f")>>)

IfPrograms == {IfProgram(v) : v \in Vals} \cup {IfInForProgram, IfInFunProgram}

EvalPrograms ==
    CallPrograms \cup OpPrograms \cup FunPrograms \cup ForPrograms \cup IfPrograms

InitEval ==
    /\ env = <<EmptyScope>>
    /\ moved = {}
    /\ input = <<>>
    /\ parsed \in EvalPrograms
    /\ last = NoOp

NextEval == Run

SpecEval == InitEval /\ [][NextEval]_vars

\* the last operation evaluated prgm
Ran(prgm) == last.op = "evaluate" /\ last.form = prgm

\* the value of an expression that reads no variable
ValueOf(e) == accept(e, NewVisitor(<<EmptyScope>>, {})).tok

\* C11: a Call whose body executes `return e`, at any block nesting depth,
\* yields the value of e, and the declaration after the return is not
\* evaluated; a return ends only the nearest enclosing Call; a Call whose
\* body runs to its end yields a NIL-typed token.
C11_ReturnUnwindsToCall ==
    /\ \A e \in RetExprs, depth \in 0..1 :
           Ran(ReturnProgram(e, depth)) =>
               /\ last.raised = ""
               /\ last.toks[2] = ValueOf(e)
               /\ "x" \notin DOMAIN last.wrote
    /\ Ran(InnerCallProgram) => last.raised = "" /\ last.toks[3] = ValueOf(Num(2))
    /\ Ran(NoReturnProgram) =>
           /\ last.raised = ""
           /\ last.toks[2].type = "NIL"
           /\ "x" \in DOMAIN last.wrote

\* C11 witness: the call of a function that returns 1 + 2 from a nested
\* block yielded 3
C11_Witness ==
    /\ Ran(ReturnProgram(Binary(Num(1), Sym("PLUS", "+"), Num(2)), 1))
    /\ last.toks[2].literal = AnyNum(3)

\* how many times the visitor evaluated the part `what`
Count(log, what) == Cardinality({i \in DOMAIN log : log[i] = what})

\* C12: a || b yields TRUE when a is truthy; when a is falsy it yields TRUE
\* if b is truthy and FALSE otherwise; a is evaluated exactly once.
C12_LogicalOr ==
    \A a, b \in Vals :
        Ran(OpProgram(a, OrT, b)) =>
            /\ last.raised = ""
            /\ last.toks[1].type =
                   IF truthy(ValueOf(a)) \/ truthy(ValueOf(b)) THEN "TRUE" ELSE "FALSE"
            /\ Count(last.log, "left") = 1

\* the left operand a decides the result of a op b
Decides(a, op) ==
    CASE op = NullishT -> ValueOf(a).type # "NIL"
      [] op = AndT     -> ~truthy(ValueOf(a))
      [] op = OrT      -> truthy(ValueOf(a))

\* C13: in a op (y = b) with op one of ??, && and ||, the left operand is
\* evaluated first; when it decides the result the right operand is not
\* evaluated and y stays unbound; otherwise the right operand is evaluated
\* exactly once.
C13_ShortCircuit ==
    \A a, b \in Vals, op \in ShortCircuitOps :
        Ran(OpSetProgram(a, op, b)) =>
            /\ last.log[1] = "left"
            /\ IF Decides(a, op)
               THEN Count(last.log, "right") = 0 /\ ~Bound(env, "y")
               ELSE Count(last.log, "right") = 1 /\ "y" \in DOMAIN last.wrote

\* the operands !x is TRUE for: false, 0 and ""
Negated == {Literal(BoolTok(FALSE)), Num(0), Literal(StrTok(""))}

\* C14: !x is a TRUE-typed token exactly when x is false, 0 or "", a
\* FALSE-typed token when x is true, a non-zero number or a non-empty
\* string, and the boolean payload agrees with the type tag.
C14_LogicalNot ==
    \A v \in Vals \ {Literal(Sym("NIL", "nil"))} :
        Ran(NotProgram(v)) =>
            /\ last.raised = ""
            /\ last.toks[1].type = IF v \in Negated THEN "TRUE" ELSE "FALSE"
            /\ last.toks[1].literal = AnyBool(last.toks[1].type = "TRUE")

\* C15: l op r with op one of -, * and / raises a runtime error whenever l
\* or r is not a number, and yields no result then.
C15_ArithmeticNeedsNumbers ==
    \A l, r \in Vals, op \in ArithmeticOps :
        (Ran(OpProgram(l, op, r)) /\ (~isNumber(ValueOf(l)) \/ ~isNumber(ValueOf(r)))) =>
            /\ last.raised = "runtime_error"
            /\ last.toks = <<>>

\* the FUN-typed value that holds the function body block
FunValue(body) == Tok("FUN", "function", AnyBlock(body))

\* C16: the declaration of a function whose name is bound already raises
\* "Function 'X' already defined" and leaves the Environment as it was; a
\* declaration that is evaluated without error binds the name to a FUN
\* value holding the body, also when the node is evaluated again after its
\* earlier binding was popped.
C16_FunctionDeclaration ==
    /\ Ran(DeclareProgram) =>
           last.raised = "" /\ getEnv(env, "f") = FunValue(BodyReturn)
    /\ Ran(RedeclareProgram) =>
           /\ last.raised = "runtime_error"
           /\ last.calls[1] = "Function 'f' already defined"
           /\ env = <<Bind(EmptyScope, "f", FunValue(BodyReturn))>>
    /\ Ran(VarThenFunProgram) =>
           /\ last.raised = "runtime_error"
           /\ last.calls[1] = "Function 'f' already defined"
           /\ env = <<Bind(EmptyScope, "f", NilTok)>>
    /\ Ran(DeclareAgainProgram) => last.raised = ""

\* the parts of a For loop in the order the claim gives for n turns: init,
\* then condition, body, step n times, then the condition that ends it
RECURSIVE LoopOrder(_)
LoopOrder(n) ==
    IF n = 0 THEN <<"init", "cond">>
    ELSE LoopOrder(n - 1) \o <<"body", "step", "cond">>

\* 0 + 1 + ... + (n - 1)
RECURSIVE SumBelow(_)
SumBelow(n) == IF n = 0 THEN 0 ELSE SumBelow(n - 1) + (n - 1)

\* C17: a For loop runs its init once, then condition, body, step in turn,
\* and ends at the first falsy condition; the loop over x < n adds
\* 0 + ... + (n - 1) to y, and var i = 0; for (var j = 0; j < 3; j = j + 1)
\* { i = i + j; } leaves i = 3.
C17_ForOrdering ==
    /\ \A n \in Turns :
           (Ran(ForBlockProgram(n)) \/ Ran(ForStmtProgram(n))) =>
               /\ last.raised = ""
               /\ last.log = LoopOrder(n)
               /\ getEnv(env, "y").literal = AnyNum(SumBelow(n))
               /\ getEnv(env, "x").literal = AnyNum(n)
    /\ (Ran(ForVarProgram) \/ Ran(ForVarAssignProgram)) =>
           /\ last.raised = ""
           /\ last.log = LoopOrder(3)
           /\ getEnv(env, "i").literal = AnyNum(3)

\* C18: an if statement evaluates its condition every time it is
\* evaluated and takes the branch the condition selects; evaluated a second
\* time, in a For body or in a function called twice, it does not raise
\* "If statement expression should not be null".
C18_IfLeavesAstUnchanged ==
    /\ \A v \in Vals :
           Ran(IfProgram(v)) =>
               /\ last.raised = ""
               /\ Count(last.log, "if") = 1
               /\ getEnv(env, "y").literal = AnyNum(IF truthy(ValueOf(v)) THEN 1 ELSE 2)
    /\ (Ran(IfInForProgram) \/ Ran(IfInFunProgram)) =>
           /\ "If statement expression should not be null" \notin
                  {last.calls[i] : i \in DOMAIN last.calls}
           /\ last.raised = ""
           /\ Count(last.log, "if") = 2
           /\ getEnv(env, "y").literal = AnyNum(2)

\* C19: from the single empty global scope, after any sequence of set,
\* addChild and removeChild no name is bound in two scopes at once, and a
\* get returns the value of the most recent set of the name that was not
\* popped, the sentinel Token() when there is none.
C19_OneBindingPerName ==
    /\ \A name \in EnvNames : Cardinality(Holders(env, name)) <= 1
    /\ last.op = "get" =>
           last.tok = IF last.name \in DOMAIN last.live THEN last.live[last.name].tok
                      ELSE TokenDefault

\* C19 witness: a get, under a child scope, of a name set in the global
\* scope, while the other name was set into the child scope
C19_Witness ==
    /\ last.op = "get"
    /\ Len(env) = 2
    /\ last.name \in DOMAIN last.live
    /\ last.live[last.name].depth = 1
    /\ last.tok = last.live[last.name].tok
    /\ \E other \in DOMAIN last.live : last.live[other].depth = 2

=============================================================================
